---------------------------- MODULE Spec2Model ----------------------------
(***************************************************************************)
(* Model of the pupillary-distance measurement pipeline of pd-calculator:   *)
(*   app/measurements.py   PupilDetector (geometry, quality score)          *)
(*   app/visualization.py  FaceAlignmentGuide (alignment, stability window) *)
(*   app/routes.py         process_frame (aggregator), start_camera, stop,  *)
(*                         video_feed / generate_frames                     *)
(*                                                                          *)
(* Number representation.  The code computes in floating point; the model   *)
(* computes in integers with fixed scales, on inputs for which every        *)
(* division of the code is exact at that scale:                             *)
(*   normalised landmark coordinates    thousandths      (0.5   -> 500)     *)
(*   pd_pixels, face width              thousandths of the normalised unit  *)
(*   pd_mm                              micrometres      (56.58 -> 56580)   *)
(*   confidence / quality               thousandths      (0.82  -> 820)     *)
(*   frame geometry                     pixels                              *)
(*                                                                          *)
(* What the frame pipeline calls but app/measurements.py does not define:   *)
(* detector.face_mesh is the external landmark extractor, so what it finds  *)
(* in a frame (a face or none, the face's landmarks) is the input of a      *)
(* frame step; detector.detect_pupils is taken to be the geometry extractor *)
(* of the specification, process_landmarks on the frame's landmark set.     *)
(* In Spec and SpecGuide process_frame is one atomic step: frames are       *)
(* processed one at a time there.  SpecStreams has the streams of           *)
(* concurrent video_feed requests, each running its own generate_frames     *)
(* loop on the globals of app/routes.py; there a frame takes two steps,     *)
(* the read with the face mesh (lines 41-45 of process_frame, no global     *)
(* touched) and the rest of process_frame (lines 48-89).                    *)
(***************************************************************************)
EXTENDS Integers, Sequences, FiniteSets, TLC

\* ------------------------------------------------------------------------
\* Program constants
\* ------------------------------------------------------------------------
STABILITY_THRESHOLD == 30
MEASUREMENT_FRAMES == 10
\* millimetres
AVERAGE_FACE_WIDTH_MM == 145
\* 0.943, in thousandths
PD_CALIBRATION_FACTOR == 943
\* WebcamHandler(width=640, height=480): the frame the guide is built for
frame_width == 640
frame_height == 480
\* 0.25, in hundredths
face_width_ratio == 25
\* 0.05 and 0.15, in hundredths
position_tolerance == 5
size_tolerance == 15
history_size == 5
\* the 0.03 of check_position_stability, in hundredths
stability_fraction == 3
\* WebcamHandler.init_retries
init_retries == 3

\* ------------------------------------------------------------------------
\* Bounds of the model
\* ------------------------------------------------------------------------
\* stable_frame_count is unbounded in the code; frames that would take it
\* above MaxStable are not fed
MaxStable == 32
\* only the first MaxOutliers candidates of the buffer carry the second pd
\* value
MaxOutliers == 1
\* streams served concurrently (the worker has `threads` of them)
MaxStreams == 2
\* cap of the stability counter in the streams' specification
MaxStreamStable == 3

\* ------------------------------------------------------------------------
\* Values and helpers
\* ------------------------------------------------------------------------
\* Python's None
None == [none |-> TRUE]

\* The outcome of a call that may raise: its value, or the exception.
Ok(v) == [ok |-> TRUE, val |-> v]

Raised(kind) == [ok |-> FALSE, val |-> kind]

IsRaised(r) == ~r.ok

Abs(x) == IF x < 0 THEN -x ELSE x

Min(a, b) == IF a <= b THEN a ELSE b

Max(a, b) == IF a >= b THEN a ELSE b

RECURSIVE SumSeq(_)
SumSeq(s) == IF s = <<>> THEN 0 ELSE Head(s) + SumSeq(Tail(s))

SetMax(S) == CHOOSE x \in S : \A y \in S : y <= x

SetMin(S) == CHOOSE x \in S : \A y \in S : x <= y

\* np.sqrt(dx**2 + dy**2), to the integer below; exact when the sum is a
\* perfect square (the root lies between max(|dx|,|dy|) and |dx|+|dy|)
Hypot(dx, dy) ==
    CHOOSE r \in Max(Abs(dx), Abs(dy))..(Abs(dx) + Abs(dy)) :
        r * r <= dx * dx + dy * dy /\ (r + 1) * (r + 1) > dx * dx + dy * dy

\* round(q, 2) of a value given in ten-thousandths; the result in thousandths
\* (Python rounds a tie to the even neighbour)
Round2(q) ==
    LET h == q \div 100
        r == q % 100
        up == r > 50 \/ (r = 50 /\ h % 2 = 1)
    IN  10 * (IF up THEN h + 1 ELSE h)

\* ------------------------------------------------------------------------
\* Landmark sets (the input of PupilDetector)
\* ------------------------------------------------------------------------
LEFT_IRIS == <<474, 475, 476, 477>>
RIGHT_IRIS == <<469, 470, 471, 472>>
FACE_WIDTH_LANDMARKS == <<127, 356>>
\* the landmarks calculate_measurement_quality reads
QualityLandmarks == {4, 386, 374, 159, 145}

AllLandmarks ==
    {LEFT_IRIS[i] : i \in 1..4} \cup {RIGHT_IRIS[i] : i \in 1..4}
        \cup {FACE_WIDTH_LANDMARKS[i] : i \in 1..2} \cup QualityLandmarks

\* The four points of an iris around its centre (cx, 500).
IrisPoint(k, cx) ==
    CASE k = 1 -> [x |-> cx - 10, y |-> 500]
      [] k = 2 -> [x |-> cx, y |-> 490]
      [] k = 3 -> [x |-> cx + 10, y |-> 500]
      [] k = 4 -> [x |-> cx, y |-> 510]

\* A landmark set from its parameters: iris centres lx, rx, temples tl, tr,
\* nose tip x, lid gaps of the two eyes, and the indices that are absent.
MakeLandmarks(p) ==
    [i \in AllLandmarks \ p.missing |->
        CASE i \in 474..477 -> IrisPoint(i - 473, p.lx)
          [] i \in 469..472 -> IrisPoint(i - 468, p.rx)
          [] i = 127 -> [x |-> p.tl, y |-> 500]
          [] i = 356 -> [x |-> p.tr, y |-> 500]
          [] i = 4 -> [x |-> p.nose, y |-> 600]
          [] i = 386 -> [x |-> p.lx, y |-> 500 - p.lgap \div 2]
          [] i = 374 -> [x |-> p.lx, y |-> 500 + p.lgap \div 2]
          [] i = 159 -> [x |-> p.rx, y |-> 500 - p.rgap \div 2]
          [] i = 145 -> [x |-> p.rx, y |-> 500 + p.rgap \div 2]]

\* ------------------------------------------------------------------------
\* PupilDetector (app/measurements.py)
\* ------------------------------------------------------------------------
PupilMeasurement(lp, rp, pdp, pdm, conf) ==
    [left_pupil |-> lp, right_pupil |-> rp, pd_pixels |-> pdp,
     pd_mm |-> pdm, confidence |-> conf]

\* landmarks[str(idx)] raises KeyError on an absent index
_calculate_iris_center(landmarks, iris_indices) ==
    IF \E k \in 1..Len(iris_indices) : iris_indices[k] \notin DOMAIN landmarks
    THEN Raised("KeyError")
    ELSE LET n == Len(iris_indices)
             xs == [k \in 1..n |-> landmarks[iris_indices[k]].x]
             ys == [k \in 1..n |-> landmarks[iris_indices[k]].y]
         IN  Ok(<<SumSeq(xs) \div n, SumSeq(ys) \div n>>)

_calculate_face_width(landmarks) ==
    IF \E k \in 1..2 : FACE_WIDTH_LANDMARKS[k] \notin DOMAIN landmarks
    THEN Raised("KeyError")
    ELSE Ok(Abs(landmarks[FACE_WIDTH_LANDMARKS[2]].x
                - landmarks[FACE_WIDTH_LANDMARKS[1]].x))

\* (variant: a face width of zero is read as one unit)
_pixel_to_mm_unguarded(pixel_distance, face_width_pixels) ==
    Ok((pixel_distance * AVERAGE_FACE_WIDTH_MM * PD_CALIBRATION_FACTOR)
           \div Max(1, face_width_pixels))

\* (variant: the conversion adds a millimetre)
_pixel_to_mm_offset(pixel_distance, face_width_pixels) ==
    IF face_width_pixels = 0
    THEN Raised("ZeroDivisionError")
    ELSE Ok((pixel_distance * AVERAGE_FACE_WIDTH_MM * PD_CALIBRATION_FACTOR)
                \div face_width_pixels + 1000)

\* AVERAGE_FACE_WIDTH_MM / face_width_pixels is a division of Python floats:
\* it raises ZeroDivisionError on a zero face width.  Result in micrometres.
_pixel_to_mm(pixel_distance, face_width_pixels) ==
    IF face_width_pixels = 0
    THEN Raised("ZeroDivisionError")
    ELSE Ok((pixel_distance * AVERAGE_FACE_WIDTH_MM * PD_CALIBRATION_FACTOR)
                \div face_width_pixels)

\* The body of the try block of calculate_measurement_quality, on landmarks
\* that hold every index it reads.  Sub-scores in thousandths, the weighted
\* sum in ten-thousandths.
QualityScore(landmarks, left_center, right_center) ==
    LET face_orientation == Abs(500 - landmarks[4].x)
        eye_openness ==
            Min(Abs(landmarks[386].y - landmarks[374].y),
                Abs(landmarks[159].y - landmarks[145].y))
        \* |0.5 - (lx + rx) / 2|, doubled
        gaze_center2 == Abs(1000 - (left_center[1] + right_center[1]))
        orientation_score == Max(0, 1000 - face_orientation * 4)
        eye_score == Min(1000, eye_openness * 10)
        gaze_score == Max(0, 1000 - gaze_center2 * 2)
        quality == orientation_score * 4 + eye_score * 3 + gaze_score * 3
    IN  Round2(Min(10000, quality))

\* (variant: the score of the landmarks present, a missing one read as 0.5)
calculate_measurement_quality_lenient(landmarks, left_center, right_center) ==
    QualityScore([i \in QualityLandmarks |->
                     IF i \in DOMAIN landmarks THEN landmarks[i]
                     ELSE [x |-> 500, y |-> 500]],
                 left_center, right_center)

\* except Exception: return 0.0
calculate_measurement_quality(landmarks, left_center, right_center) ==
    IF QualityLandmarks \subseteq DOMAIN landmarks
    THEN QualityScore(landmarks, left_center, right_center)
    ELSE 0

\* except Exception: return None
process_landmarks(landmarks) ==
    LET lcr == _calculate_iris_center(landmarks, LEFT_IRIS)
        rcr == _calculate_iris_center(landmarks, RIGHT_IRIS)
    IN  IF IsRaised(lcr) \/ IsRaised(rcr)
        THEN None
        ELSE
          LET left_center == lcr.val
              right_center == rcr.val
              pd_pixels == Hypot(right_center[1] - left_center[1],
                                 right_center[2] - left_center[2])
              fwr == _calculate_face_width(landmarks)
          IN  IF IsRaised(fwr)
              THEN None
              ELSE
                LET pd_mm == _pixel_to_mm(pd_pixels, fwr.val)
                IN  IF IsRaised(pd_mm)
                    THEN None
                    ELSE PupilMeasurement(
                             left_center, right_center, pd_pixels, pd_mm.val,
                             calculate_measurement_quality(
                                 landmarks, left_center, right_center))

\* ------------------------------------------------------------------------
\* FaceAlignmentGuide (app/visualization.py)
\* ------------------------------------------------------------------------
\* int(frame_width * face_width_ratio)
oval_width == (frame_width * face_width_ratio) \div 100

center_x == frame_width \div 2

center_y == frame_height \div 2

\* The result of draw_guide: its (aligned, message) and the position history
\* it leaves.
GuideResult(aligned, message, history) ==
    [aligned |-> aligned, message |-> message, history |-> history]

\* (variant: the newest position is removed from a full window)
PushPositionDropNewest(history, face_center) ==
    Append(IF Len(history) >= history_size
           THEN SubSeq(history, 1, Len(history) - 1) ELSE history,
           face_center)

\* pop(0) when the window is full, then append
PushPosition(history, face_center) ==
    Append(IF Len(history) >= history_size THEN Tail(history) ELSE history,
           face_center)

\* (variant: the window is judged one position early)
WindowFilledEarly(history) == Len(history) >= history_size - 1

\* the window is long enough to be judged
WindowFilled(history) == Len(history) >= history_size

\* max - min of the x and of the y coordinates, below 3% of the frame
WithinStability(history) ==
    LET x_coords == {history[i][1] : i \in 1..Len(history)}
        y_coords == {history[i][2] : i \in 1..Len(history)}
        x_variance == SetMax(x_coords) - SetMin(x_coords)
        y_variance == SetMax(y_coords) - SetMin(y_coords)
    IN  /\ x_variance * 100 < frame_width * stability_fraction
        /\ y_variance * 100 < frame_height * stability_fraction

\* check_position_stability: the verdict and the window it leaves
check_position_stability(history, face_center) ==
    LET h == PushPosition(history, face_center)
    IN  [stable |-> WindowFilled(h) /\ WithinStability(h), history |-> h]

\* (variant: a size tolerance of 0.25)
SizeFailsLoose(face_width) ==
    Abs(face_width - oval_width) * 100 > (size_tolerance + 10) * oval_width

\* width_diff > size_tolerance
SizeFails(face_width) ==
    Abs(face_width - oval_width) * 100 > size_tolerance * oval_width

\* x_offset > position_tolerance or y_offset > position_tolerance
OffsetFails(face_center) ==
    \/ Abs(face_center[1] - center_x) * 100 > position_tolerance * frame_width
    \/ Abs(face_center[2] - center_y) * 100 > position_tolerance * frame_height

\* A face's bounding box in pixels, as draw_guide takes it from the
\* landmarks; NoBox stands for a landmark list the geometry code raises on.
NoBox == [nobox |-> TRUE]

Box(l, r, t, b) == [left |-> l, right |-> r, top |-> t, bottom |-> b]

\* (variant: the offset is checked before the size)
draw_guide_offset_first(history, box) ==
    IF box = None
    THEN GuideResult(FALSE, "No face detected", <<>>)
    ELSE IF box = NoBox
    THEN GuideResult(FALSE, "Error in alignment", history)
    ELSE
      LET face_width == box.right - box.left
          face_center == <<(box.left + box.right) \div 2,
                           (box.top + box.bottom) \div 2>>
      IN  IF OffsetFails(face_center)
          THEN GuideResult(FALSE, "Center your face", history)
          ELSE IF SizeFails(face_width)
          THEN IF face_width < oval_width
               THEN GuideResult(FALSE, "Move closer", history)
               ELSE GuideResult(FALSE, "Move back", history)
          ELSE
            LET c == check_position_stability(history, face_center)
            IN  IF ~c.stable
                THEN GuideResult(FALSE, "Hold still", c.history)
                ELSE GuideResult(TRUE, "Perfect", c.history)

\* draw_guide(frame, face_landmarks); box = None is face_landmarks = None
draw_guide(history, box) ==
    IF box = None
    THEN GuideResult(FALSE, "No face detected", <<>>)
    ELSE IF box = NoBox
    THEN GuideResult(FALSE, "Error in alignment", history)
    ELSE
      LET face_width == box.right - box.left
          face_center == <<(box.left + box.right) \div 2,
                           (box.top + box.bottom) \div 2>>
      IN  IF SizeFails(face_width)
          THEN IF face_width < oval_width
               THEN GuideResult(FALSE, "Move closer", history)
               ELSE GuideResult(FALSE, "Move back", history)
          ELSE IF OffsetFails(face_center)
          THEN GuideResult(FALSE, "Center your face", history)
          ELSE
            LET c == check_position_stability(history, face_center)
            IN  IF ~c.stable
                THEN GuideResult(FALSE, "Hold still", c.history)
                ELSE GuideResult(TRUE, "Perfect", c.history)

\* ------------------------------------------------------------------------
\* Frames (the input of process_frame)
\* ------------------------------------------------------------------------
\* What the face mesh finds in a camera frame: whether there is a face, the
\* bounding box of its landmarks, the landmark set the measurement reads,
\* and the angle in degrees of the line between the eyes (0: a level head),
\* which nothing in draw_guide or process_frame computes or reads.
TiltedFrame(box, lm, angle) ==
    [face |-> TRUE, box |-> box, lm |-> lm, angle |-> angle]

Frame(face, box, lm) == [face |-> face, box |-> box, lm |-> lm, angle |-> 0]

NoFaceFrame == Frame(FALSE, None, "none")

\* Landmark sets by name.  "A" and "B" are complete sets with different
\* pupillary distance and quality; "noiris" lacks an iris landmark.
LmParams(name) ==
    LET a == [lx |-> 560, rx |-> 440, tl |-> 355, tr |-> 645, nose |-> 500,
              lgap |-> 40, rgap |-> 40, missing |-> {}]
    IN  CASE name = "A" -> a
          [] name = "B" -> [a EXCEPT !.lx = 570, !.rx = 430, !.nose = 520]
          [] name = "noiris" -> [a EXCEPT !.missing = {474}]
          [] OTHER -> [a EXCEPT !.missing = AllLandmarks]

LmNames == {"A", "B", "noiris", "none"}

\* the landmark set of each name
LandmarksOf == [n \in LmNames |-> MakeLandmarks(LmParams(n))]

FrameLandmarks(f) == LandmarksOf[f.lm]

\* a face of the ideal size in the centre of the frame
GoodBox == Box(240, 400, 100, 380)

\* a face too far from the camera
SmallBox == Box(270, 370, 150, 330)

\* The frames of the aggregator's specification.
PipelineFrames ==
    {NoFaceFrame}
        \cup {Frame(TRUE, b, l) : b \in {GoodBox, SmallBox},
                                  l \in {"A", "B", "noiris"}}

\* A face box by its width and centre.
BoxAt(w, cx, cy) == Box(cx - w \div 2, cx + w \div 2, cy - 100, cy + 100)

\* Widths around the size tolerance of the oval (160 px wide): too small,
\* the lower limit, 10% larger, the upper limit, just above it, 20% larger.
GuideWidths == {120, 136, 176, 184, 186, 192}

\* Centres: the frame's centre, a shift right within the position tolerance
\* but beyond the stability limit, and two off-centre (right, below).
GuideCenters == {<<320, 240>>, <<340, 240>>, <<354, 240>>, <<320, 270>>}

\* The frames of the guide's specification: no measurement is taken.
GuideFrames ==
    {NoFaceFrame, Frame(TRUE, NoBox, "noiris"),
     TiltedFrame(BoxAt(176, 320, 240), "noiris", 45)}
        \cup {Frame(TRUE, BoxAt(w, c[1], c[2]), "noiris") :
                  w \in GuideWidths, c \in GuideCenters}

\* The streams served at the same time, out of the threads of the worker.
Streams == 1..MaxStreams

\* The frames of the streams' specification.
StreamFrames ==
    {NoFaceFrame, Frame(TRUE, GoodBox, "A"), Frame(TRUE, SmallBox, "A")}

\* The x of the iris centres of the inputs: pupils 0, 10, 120, 130, 240 and
\* more thousandths apart.
IrisLeftXs == {560, 570, 680, 900}

IrisRightXs == {440, 560, 100}

\* The inputs of the measurement functions: the parameters of a landmark
\* set, and the two iris centres handed to calculate_measurement_quality.
LandmarkInputs ==
    [p : [lx : IrisLeftXs, rx : IrisRightXs,
          tl : {355, 500}, tr : {645, 500},
          nose : {500, 520, 1400}, lgap : {40, 0, 200}, rgap : {40},
          missing : {{}} \cup {{i} : i \in AllLandmarks}],
     lc : {<<560, 500>>, <<-300, 500>>},
     rc : {<<440, 500>>}]

\* ------------------------------------------------------------------------
\* State
\* ------------------------------------------------------------------------
VARIABLES
    \* globals of app/routes.py
    is_running, is_measuring, camera_started, stable_frame_count,
    last_measurement, alignment_status, measurement_buffer,
    \* webcam_handler.guide.position_history (empty until the guide exists)
    position_history,
    \* webcam_handler.cap: "none" for None, "open" for a capture device that
    \* is opened, "closed" for one that is not (isOpened() false)
    cap,
    \* webcam_handler.is_initialized
    is_initialized,
    \* the call of ensure_camera_initialized in progress: where it stands,
    \* its attempt, the capture method tried, the calls of initialize_camera
    \* made, and whether a release() raised in the last of them
    ens,
    \* the generate_frames loop of each stream: where it stands ("idle": no
    \* loop, "loop": at the loop condition, "frame": inside process_frame)
    \* and the frame it is processing
    pc, cur,
    \* the landmark set handed to process_landmarks and its result
    lmIn, lmOut,
    \* history: the last operation that changed the session
    last,
    \* history: how many positions entered the stability window since the
    \* last frame with a face whose position did not (at most history_size)
    sinceSkip,
    \* history: the ALIGNED frames in a row since the last final measurement,
    \* request or frame that was not ALIGNED (at most STABILITY_THRESHOLD)
    sinceEmit,
    \* history: a final measurement was emitted since the last stop
    cycleDone,
    \* history: the streams whose loop was running at the last stop and has
    \* not ended since
    stale,
    \* history: the position in a run of STABILITY_THRESHOLD aligned frames
    \* followed by candidate frames that started from a reset aggregator
    \* (-1: no such run), the threshold frame's pd_mm (-1: none), the pd_mm
    \* of the candidate frames after it, the final measurements of the run
    sc, scThr, scFollow, scEmits

routesVars ==
    <<is_running, is_measuring, camera_started, stable_frame_count,
      last_measurement, alignment_status, measurement_buffer>>

scVars == <<sinceSkip, sinceEmit, cycleDone, sc, scThr, scFollow, scEmits>>

streamVars == <<pc, cur>>

camVars == <<is_initialized, ens>>

\* the record kept of a call of ensure_camera_initialized; it stands at
\* "returned" or "raised" from the end of the call until the camera is
\* touched again
EnsState(p, attempt, method, calls, release_raised) ==
    [pc |-> p, attempt |-> attempt, method |-> method, calls |-> calls,
     release_raised |-> release_raised]

EnsIdle == EnsState("idle", 0, 0, 0, FALSE)

vars ==
    <<is_running, is_measuring, camera_started, stable_frame_count,
      last_measurement, alignment_status, measurement_buffer,
      position_history, cap, pc, cur, lmIn, lmOut,
      last, sinceSkip, sinceEmit, cycleDone, stale,
      sc, scThr, scFollow, scEmits, is_initialized, ens>>

\* ------------------------------------------------------------------------
\* process_frame (app/routes.py)
\* ------------------------------------------------------------------------
\* detector.detect_pupils(frame, results): the candidate measurement of the
\* frame's landmark set, None when geometry extraction fails
Candidates == [n \in LmNames |-> process_landmarks(LandmarksOf[n])]

detect_pupils(f) == Candidates[f.lm]

\* (variant: a non-aligned frame takes one off the counter)
NextStableCountDecay(aligned, count) ==
    IF aligned THEN count + 1 ELSE Max(0, count - 1)

\* lines 53-59: the counter after a frame with a face
NextStableCount(aligned, count) == IF aligned THEN count + 1 ELSE 0

\* (variant: measuring is entered one frame early)
EntersMeasuringEarly(aligned, count, measuring) ==
    aligned /\ count >= STABILITY_THRESHOLD - 1 /\ ~measuring

\* line 55, on the incremented counter
EntersMeasuring(aligned, count, measuring) ==
    aligned /\ count >= STABILITY_THRESHOLD /\ ~measuring

\* (variant: one candidate more is awaited)
BufferFullLate(buffer) == Len(buffer) > MEASUREMENT_FRAMES

\* (variant: the buffer is averaged two candidates late)
BufferFullSlack(buffer) == Len(buffer) >= MEASUREMENT_FRAMES + 2

\* line 73
BufferFull(buffer) == Len(buffer) >= MEASUREMENT_FRAMES

\* (variant: the last candidate is reported as it is)
FinalMeasurementLast(buffer, measurement) ==
    PupilMeasurement(measurement.left_pupil, measurement.right_pupil,
                     measurement.pd_pixels, measurement.pd_mm,
                     measurement.confidence)

\* lines 74-83: the averaged measurement; `measurement` is the candidate
\* just appended
FinalMeasurement(buffer, measurement) ==
    LET n == Len(buffer)
        avg_pd_mm == SumSeq([i \in 1..n |-> buffer[i].pd_mm]) \div n
        avg_quality == SumSeq([i \in 1..n |-> buffer[i].confidence]) \div n
    IN  PupilMeasurement(measurement.left_pupil, measurement.right_pupil,
                         measurement.pd_pixels, avg_pd_mm, avg_quality)

\* lines 65-70: the candidate with its confidence recomputed; an iris centre
\* that cannot be computed raises out of process_frame
Requalified(landmarks, measurement) ==
    LET lc == _calculate_iris_center(landmarks, LEFT_IRIS)
        rc == _calculate_iris_center(landmarks, RIGHT_IRIS)
    IN  IF IsRaised(lc) \/ IsRaised(rc)
        THEN Raised("KeyError")
        ELSE Ok([measurement EXCEPT
                    !.confidence =
                        calculate_measurement_quality(landmarks, lc.val, rc.val)])

\* (variant: a frame without candidate drops what was buffered)
AppendCandidateOrDrop(buffer, m) ==
    IF IsRaised(m) THEN <<>> ELSE Append(buffer, m.val)

\* lines 64-71: the buffer after the candidate m, Raised when there is none
AppendCandidate(buffer, m) ==
    IF IsRaised(m) THEN buffer ELSE Append(buffer, m.val)

\* lines 63-70 on the landmark set of each name
Requalifications ==
    [n \in LmNames |->
        IF Candidates[n] = None THEN Raised("None")
        ELSE Requalified(LandmarksOf[n], Candidates[n])]

\* The effect of process_frame(f) on the state it is called in: the new
\* values of the globals and of the guide's window, and what happened.
FrameOutcome(f) ==
    IF ~f.face
    THEN [status |-> [aligned |-> FALSE,
                      message |-> "No face detected. Please look at the camera."],
          count |-> 0, measuring |-> is_measuring,
          buffer |-> measurement_buffer, lastm |-> last_measurement,
          history |-> position_history,
          aligned |-> FALSE, entered |-> FALSE, appended |-> FALSE,
          emitted |-> FALSE]
    ELSE
      LET g == draw_guide(position_history, f.box)
          count1 == NextStableCount(g.aligned, stable_frame_count)
          enter == EntersMeasuring(g.aligned, count1, is_measuring)
          measuring1 == is_measuring \/ enter
          buffer1 == IF enter THEN <<>> ELSE measurement_buffer
          \* lines 62-70: Raised when nothing is to be appended
          m2 == IF measuring1 /\ detect_pupils(f) # None
                THEN Requalifications[f.lm] ELSE Raised("None")
          got == ~IsRaised(m2)
          buffer2 == AppendCandidate(buffer1, m2)
          full == got /\ BufferFull(buffer2)
      IN  [status |-> [aligned |-> g.aligned, message |-> g.message],
           count |-> count1,
           measuring |-> IF full THEN FALSE ELSE measuring1,
           buffer |-> buffer2,
           lastm |-> IF full THEN FinalMeasurement(buffer2, m2.val)
                     ELSE last_measurement,
           history |-> g.history,
           aligned |-> g.aligned, entered |-> enter, appended |-> got,
           emitted |-> full]

\* the frame yields a valid candidate measurement
HasCandidate(f) == f.face /\ detect_pupils(f) # None

\* the record of an operation in `last`
OpRecord(op, f, emitted) ==
    [op |-> op, face |-> f.face, box |-> f.box, angle |-> f.angle,
     candidate |-> HasCandidate(f), emitted |-> emitted]

\* counter 0, not measuring, empty buffer
ResetAggregator(count, measuring, buffer) ==
    count = 0 /\ ~measuring /\ buffer = <<>>

\* The run tracked by sc: after a frame with outcome o.
TrackRun(f, o) ==
    IF sc \in 0..(STABILITY_THRESHOLD - 1) /\ o.aligned
    THEN /\ sc' = sc + 1
         /\ scThr' = IF sc + 1 = STABILITY_THRESHOLD /\ HasCandidate(f)
                     THEN detect_pupils(f).pd_mm ELSE -1
         /\ scFollow' = <<>>
         /\ scEmits' = IF o.emitted THEN 1 ELSE 0
    ELSE IF /\ sc \in STABILITY_THRESHOLD
                       ..(STABILITY_THRESHOLD + MEASUREMENT_FRAMES - 1)
            /\ HasCandidate(f)
    THEN /\ sc' = sc + 1
         /\ scThr' = scThr
         /\ scFollow' = Append(scFollow, detect_pupils(f).pd_mm)
         /\ scEmits' = scEmits + (IF o.emitted THEN 1 ELSE 0)
    ELSE /\ sc' = IF ResetAggregator(o.count, o.measuring, o.buffer)
                  THEN 0 ELSE -1
         /\ scThr' = -1
         /\ scFollow' = <<>>
         /\ scEmits' = 0

\* The run tracked by sc: after an operation that is no frame.
RestartRun ==
    /\ UNCHANGED sinceSkip
    /\ sinceEmit' = 0
    /\ sc' = IF ResetAggregator(stable_frame_count', is_measuring',
                                measurement_buffer')
             THEN 0 ELSE -1
    /\ scThr' = -1
    /\ scFollow' = <<>>
    /\ scEmits' = 0

\* the buffered candidates that are not the measurement of landmark set "A"
Outliers(buffer) ==
    {i \in 1..Len(buffer) : buffer[i].pd_mm # Candidates["A"].pd_mm}

\* sinceSkip after a frame with outcome o: draw_guide hands the position to
\* check_position_stability only past the size and offset checks
TrackWindow(f, o) ==
    IF ~f.face THEN sinceSkip
    ELSE IF o.status.message \in {"Hold still", "Perfect"}
    THEN Min(history_size, sinceSkip + 1)
    ELSE 0

\* sinceEmit after a frame with outcome o
TrackAligned(o) ==
    IF o.emitted \/ ~o.aligned THEN 0
    ELSE Min(STABILITY_THRESHOLD, sinceEmit + 1)

process_frame(f) ==
    LET o == FrameOutcome(f)
    IN  /\ alignment_status' = o.status
        /\ stable_frame_count' = o.count
        /\ is_measuring' = o.measuring
        /\ measurement_buffer' = o.buffer
        /\ last_measurement' = o.lastm
        /\ position_history' = o.history
        /\ last' = OpRecord("frame", f, o.emitted)
        /\ sinceSkip' = TrackWindow(f, o)
        /\ sinceEmit' = TrackAligned(o)
        /\ cycleDone' = (cycleDone \/ o.emitted)
        /\ TrackRun(f, o)
        /\ UNCHANGED <<is_running, camera_started, lmIn, lmOut>>

\* ------------------------------------------------------------------------
\* Requests and the streaming loop (app/routes.py)
\* ------------------------------------------------------------------------
\* One iteration of the loop of generate_frames on a frame of Fs.
FrameStep(Fs) ==
    /\ is_running /\ camera_started
    \* read_frame returned a frame: the device is open, opened again by
    \* ensure_camera_initialized when it was not
    /\ cap' = "open"
    /\ is_initialized' = TRUE
    /\ UNCHANGED <<streamVars, stale, ens>>
    /\ \E f \in Fs :
          /\ process_frame(f)
          /\ stable_frame_count' <= MaxStable
          /\ Outliers(measurement_buffer') \subseteq 1..MaxOutliers

\* video_feed with the camera started: generate_frames sets is_running
video_feed ==
    /\ camera_started
    /\ is_running' = TRUE
    /\ last' = IF is_running THEN last
               ELSE OpRecord("video_feed", NoFaceFrame, FALSE)
    /\ UNCHANGED <<is_measuring, camera_started, stable_frame_count,
                   last_measurement, alignment_status, measurement_buffer,
                   position_history, cap, pc, cur, lmIn, lmOut, scVars,
                   stale, camVars>>

\* round(x, 1) of a value given in micrometres; the result in tenths of a
\* millimetre
Round1(q) ==
    LET h == q \div 100
        r == q % 100
    IN  IF r > 50 \/ (r = 50 /\ h % 2 = 1) THEN h + 1 ELSE h

\* get_measurement: the answer to a request in the current state; pd_mm in
\* tenths of a millimetre, confidence in percent (int() cuts the fraction)
get_measurement ==
    IF last_measurement # None
    THEN [pd_mm |-> Round1(last_measurement.pd_mm),
          confidence |-> last_measurement.confidence \div 10,
          aligned |-> alignment_status.aligned,
          message |-> alignment_status.message]
    ELSE [status |-> "no_measurement"]

\* How start_camera ends: the camera opened (lines 158-164), or an
\* exception of webcam_handler.release() or of initialize_camera() caught at
\* line 165.  release() runs, and can raise, only on a device.
StartOutcomes ==
    {"success", "init_error"}
        \cup (IF cap = "open" THEN {"release_error"} ELSE {})

\* start_camera
start_camera ==
    \E outcome \in StartOutcomes :
        IF outcome = "success"
        THEN /\ cap' = "open"
             /\ is_initialized' = TRUE
             /\ camera_started' = TRUE
             /\ is_measuring' = FALSE
             /\ stable_frame_count' = 0
             /\ last' = OpRecord("start_camera", NoFaceFrame, FALSE)
             /\ UNCHANGED <<is_running, last_measurement, alignment_status,
                            measurement_buffer, position_history, pc, cur,
                            lmIn, lmOut, cycleDone, stale, ens>>
             /\ RestartRun
        ELSE \* initialize_camera leaves cap None when it raises; the
             \* session is as it was
             /\ cap' = IF outcome = "release_error" THEN cap ELSE "none"
             /\ is_initialized' =
                    IF outcome = "release_error" THEN is_initialized ELSE FALSE
             /\ last' = OpRecord("start_camera_error", NoFaceFrame, FALSE)
             /\ UNCHANGED <<routesVars, position_history, pc, cur, lmIn, lmOut,
                            scVars, stale, ens>>

\* (variant: reset_state keeps the last measurement)
reset_state_keeps_measurement ==
    /\ is_running' = FALSE
    /\ is_measuring' = FALSE
    /\ camera_started' = FALSE
    /\ stable_frame_count' = 0
    /\ UNCHANGED last_measurement
    /\ measurement_buffer' = <<>>

\* reset_state, as the values it leaves
reset_state ==
    /\ is_running' = FALSE
    /\ is_measuring' = FALSE
    /\ camera_started' = FALSE
    /\ stable_frame_count' = 0
    /\ last_measurement' = None
    /\ measurement_buffer' = <<>>

\* (variant: stop without its finally clause)
StopWithoutFinally(raised) ==
    IF raised
    THEN /\ is_running' = FALSE
         /\ camera_started' = FALSE
         /\ UNCHANGED <<is_measuring, stable_frame_count, last_measurement,
                        measurement_buffer>>
    ELSE reset_state

\* The globals as stop leaves them.  When release() raises, the try block
\* has set is_running and camera_started to False and the except clause
\* answers; reset_state() runs in the finally clause on every path.
StopGlobals(raised) == reset_state

\* stop; release() runs, and can raise, only on a device
stop ==
    \E raised \in (IF cap = "open" THEN BOOLEAN ELSE {FALSE}) :
        /\ StopGlobals(raised)
        /\ cap' = IF raised THEN cap ELSE "none"
        /\ last' = OpRecord(IF raised THEN "stop_error" ELSE "stop",
                            NoFaceFrame, FALSE)
        /\ RestartRun
        /\ cycleDone' = FALSE
        /\ stale' = {s \in Streams : pc[s] # "idle"}
        /\ UNCHANGED <<alignment_status, position_history, pc, cur,
                       lmIn, lmOut, camVars>>

\* ------------------------------------------------------------------------
\* Specifications
\* ------------------------------------------------------------------------
Init ==
    /\ is_running = FALSE
    /\ is_measuring = FALSE
    /\ camera_started = FALSE
    /\ stable_frame_count = 0
    /\ last_measurement = None
    /\ alignment_status = [aligned |-> FALSE, message |-> "Look at the camera"]
    /\ measurement_buffer = <<>>
    /\ position_history = <<>>
    /\ cap = "none"
    /\ is_initialized = FALSE
    /\ ens = EnsIdle
    /\ pc = [s \in Streams |-> "idle"]
    /\ cur = [s \in Streams |-> NoFaceFrame]
    /\ lmIn = None
    /\ lmOut = None
    /\ last = OpRecord("init", NoFaceFrame, FALSE)
    /\ sinceSkip = 0
    /\ sinceEmit = 0
    /\ cycleDone = FALSE
    /\ stale = {}
    /\ sc = 0
    /\ scThr = -1
    /\ scFollow = <<>>
    /\ scEmits = 0

Next ==
    \/ FrameStep(PipelineFrames)
    \/ video_feed
    \/ start_camera
    \/ stop

Spec == Init /\ [][Next]_vars

\* The alignment guide on frames of every size and position.
NextGuide ==
    \/ FrameStep(GuideFrames)
    \/ video_feed
    \/ start_camera
    \/ stop

SpecGuide == Init /\ [][NextGuide]_vars

\* The streams: a video_feed request starts a generate_frames loop in its
\* own thread of the one worker.
\* video_feed of stream s with the camera started; the generator sets
\* is_running (line 108)
open_stream(s) ==
    /\ pc[s] = "idle"
    /\ camera_started
    /\ is_running' = TRUE
    /\ pc' = [pc EXCEPT ![s] = "loop"]
    /\ last' = OpRecord("video_feed", NoFaceFrame, FALSE)
    /\ UNCHANGED <<is_measuring, camera_started, stable_frame_count,
                   last_measurement, alignment_status, measurement_buffer,
                   position_history, cap, cur, lmIn, lmOut, scVars, stale,
                   camVars>>

\* lines 109-117 and 41-45: the loop condition; when it holds, read_frame
\* and the face mesh on the frame read, or the loop's end when no frame
\* could be read
next_frame(s) ==
    /\ pc[s] = "loop"
    /\ IF is_running /\ camera_started
       THEN \/ \E f \in StreamFrames :
                  /\ pc' = [pc EXCEPT ![s] = "frame"]
                  /\ cur' = [cur EXCEPT ![s] = f]
                  /\ cap' = "open"
            \/ /\ pc' = [pc EXCEPT ![s] = "idle"]
               /\ UNCHANGED <<cur, cap>>
       ELSE /\ pc' = [pc EXCEPT ![s] = "idle"]
            /\ UNCHANGED <<cur, cap>>
    /\ stale' = IF pc'[s] = "idle" THEN stale \ {s} ELSE stale
    /\ is_initialized' = IF pc'[s] = "frame" THEN TRUE ELSE is_initialized
    /\ UNCHANGED ens
    /\ UNCHANGED <<routesVars, position_history, lmIn, lmOut, last, scVars>>

\* lines 48-89 of process_frame on the frame of stream s, then back to the
\* loop condition
finish_frame(s) ==
    /\ pc[s] = "frame"
    /\ process_frame(cur[s])
    /\ stable_frame_count' <= MaxStreamStable
    /\ pc' = [pc EXCEPT ![s] = "loop"]
    /\ cur' = [cur EXCEPT ![s] = NoFaceFrame]
    /\ UNCHANGED <<cap, stale, camVars>>

NextStreams ==
    \/ \E s \in Streams : open_stream(s)
    \/ \E s \in Streams : next_frame(s)
    \/ \E s \in Streams : finish_frame(s)
    \/ start_camera
    \/ stop

SpecStreams == Init /\ [][NextStreams]_vars

\* ------------------------------------------------------------------------
\* WebcamHandler: the camera (app/visualization.py)
\* ------------------------------------------------------------------------
\* the entries of capture_methods in initialize_camera
CaptureMethods == 1..5

\* What trying one capture method comes to: the device opens and the test
\* read gives a frame; the device does not open; it opens and the test read
\* gives none (the device is released); an exception that the method's
\* handler answers by releasing the device; an exception with a release()
\* that raises in that handler, which leaves the loop over the methods with
\* the device still held, opened or not.
CaptureOutcomes == {"ok", "unopened", "noread", "raise", "release_raise"}

\* no call of ensure_camera_initialized is in progress
EnsAtRest == ens.pc \in {"idle", "returned", "raised"}

\* for attempt in range(self.init_retries), attempts counted from 1
RetriesLeft(attempt) == attempt < init_retries

\* ensure_camera_initialized, line 221: the camera is as it should be and
\* the call returns, or the first attempt begins
ensure_camera_initialized ==
    /\ EnsAtRest
    /\ ens' = IF ~is_initialized \/ cap = "none" \/ cap # "open"
              THEN EnsState("call", 1, 0, 0, FALSE)
              ELSE EnsState("returned", 0, 0, 0, FALSE)
    /\ UNCHANGED <<cap, is_initialized>>

\* initialize_camera, lines 168-170: a device that is held is released
\* first, outside the try block; a release() that raises ends the call
initialize_camera ==
    /\ ens.pc = "call"
    /\ \E raised \in (IF cap # "none" THEN BOOLEAN ELSE {FALSE}) :
          IF raised
          THEN /\ ens' = [ens EXCEPT !.pc = "failed", !.calls = @ + 1,
                                     !.release_raised = TRUE]
               /\ UNCHANGED <<cap, is_initialized>>
          ELSE /\ ens' = [ens EXCEPT !.pc = "method", !.method = 1,
                                     !.calls = @ + 1,
                                     !.release_raised = FALSE]
               /\ cap' = "none"
               /\ UNCHANGED is_initialized

\* lines 182-207: one capture method
try_capture_method ==
    /\ ens.pc = "method"
    /\ \E outcome \in CaptureOutcomes :
          LET next == IF ens.method + 1 \in CaptureMethods
                      THEN [ens EXCEPT !.method = @ + 1]
                      ELSE [ens EXCEPT !.pc = "exhausted"]
          IN  CASE outcome = "ok" ->
                     /\ cap' = "open"
                     /\ is_initialized' = TRUE
                     /\ ens' = [ens EXCEPT !.pc = "returned"]
                [] outcome \in {"unopened", "noread"} ->
                     /\ cap' = "closed"
                     /\ ens' = next
                     /\ UNCHANGED is_initialized
                [] outcome = "raise" ->
                     /\ cap' = "none"
                     /\ ens' = next
                     /\ UNCHANGED is_initialized
                [] outcome = "release_raise" ->
                     /\ cap' \in {"open", "closed"}
                     /\ ens' = [ens EXCEPT !.pc = "exhausted",
                                           !.release_raised = TRUE]
                     /\ UNCHANGED is_initialized

\* lines 209-217: no method gave a camera (or an exception left the loop);
\* the handler clears is_initialized, releases a device that is held and
\* raises; its release() can raise too
initialize_camera_fails ==
    /\ ens.pc = "exhausted"
    /\ is_initialized' = FALSE
    /\ \E raised \in (IF cap # "none" THEN BOOLEAN ELSE {FALSE}) :
          /\ cap' = IF raised THEN cap ELSE "none"
          /\ ens' = [ens EXCEPT !.pc = "failed",
                                !.release_raised = raised]

\* lines 228-231: the attempt failed; the next attempt, or RuntimeError
\* after the last
ensure_retry ==
    /\ ens.pc = "failed"
    /\ ens' = IF RetriesLeft(ens.attempt)
              THEN [ens EXCEPT !.pc = "call", !.attempt = @ + 1]
              ELSE [ens EXCEPT !.pc = "raised"]
    /\ UNCHANGED <<cap, is_initialized>>

\* the device stops being opened (unplugged, taken by another program)
device_lost ==
    /\ EnsAtRest
    /\ cap = "open"
    /\ cap' = "closed"
    /\ ens' = EnsIdle
    /\ UNCHANGED is_initialized

\* WebcamHandler.release()
release ==
    /\ EnsAtRest
    /\ cap # "none"
    /\ cap' = "none"
    /\ ens' = EnsIdle
    /\ UNCHANGED is_initialized

\* what the camera's operations leave alone
cameraRest == <<routesVars, position_history, streamVars, lmIn, lmOut,
                last, scVars, stale>>

NextCamera ==
    \/ ensure_camera_initialized /\ UNCHANGED cameraRest
    \/ initialize_camera /\ UNCHANGED cameraRest
    \/ try_capture_method /\ UNCHANGED cameraRest
    \/ initialize_camera_fails /\ UNCHANGED cameraRest
    \/ ensure_retry /\ UNCHANGED cameraRest
    \/ device_lost /\ UNCHANGED cameraRest
    \/ release /\ UNCHANGED cameraRest

SpecCamera == Init /\ [][NextCamera]_vars

\* The measurement functions on every landmark input.
InitLandmarks ==
    /\ is_running = FALSE
    /\ is_measuring = FALSE
    /\ camera_started = FALSE
    /\ stable_frame_count = 0
    /\ last_measurement = None
    /\ alignment_status = [aligned |-> FALSE, message |-> "Look at the camera"]
    /\ measurement_buffer = <<>>
    /\ position_history = <<>>
    /\ cap = "none"
    /\ is_initialized = FALSE
    /\ ens = EnsIdle
    /\ pc = [s \in Streams |-> "idle"]
    /\ cur = [s \in Streams |-> NoFaceFrame]
    /\ lmIn \in LandmarkInputs
    /\ lmOut = None
    /\ last = OpRecord("init", NoFaceFrame, FALSE)
    /\ sinceSkip = 0
    /\ sinceEmit = 0
    /\ cycleDone = FALSE
    /\ stale = {}
    /\ sc = 0
    /\ scThr = -1
    /\ scFollow = <<>>
    /\ scEmits = 0

\* process_landmarks(landmarks) and
\* calculate_measurement_quality(landmarks, lc, rc) on the input
ApplyLandmarks ==
    /\ lmOut = None
    /\ lmOut' = [measurement |-> process_landmarks(MakeLandmarks(lmIn.p)),
                 quality |-> calculate_measurement_quality(
                                 MakeLandmarks(lmIn.p), lmIn.lc, lmIn.rc)]
    /\ UNCHANGED <<routesVars, position_history, cap, streamVars, lmIn, last,
                   scVars, stale, camVars>>

NextLandmarks == ApplyLandmarks

SpecLandmarks == InitLandmarks /\ [][NextLandmarks]_vars

\* ------------------------------------------------------------------------
\* Properties
\* ------------------------------------------------------------------------
\* the step is a processed frame
FrameProcessed == last'.op = "frame"

\* the state follows a processed frame that had a face with a bounding box
AfterBoxedFrame == last.op = "frame" /\ last.face /\ last.box # NoBox

LastWidth == last.box.right - last.box.left

LastCenter == <<(last.box.left + last.box.right) \div 2,
                (last.box.top + last.box.bottom) \div 2>>

\* the candidates buffered in the tracked run, from the threshold frame on
RunBuffered == (IF scThr >= 0 THEN <<scThr>> ELSE <<>>) \o scFollow

RunComplete == sc = STABILITY_THRESHOLD + MEASUREMENT_FRAMES

\* C1 (as claimed): after STABILITY_THRESHOLD aligned frames and
\* MEASUREMENT_FRAMES candidate frames from a reset aggregator there is
\* exactly one final measurement, and its pd_mm is the mean of the pd_mm of
\* the MEASUREMENT_FRAMES candidate frames that followed the aligned ones.
C1_MeanOfFollowingFrames ==
    RunComplete =>
        /\ scEmits = 1
        /\ last_measurement # None
        /\ last_measurement.pd_mm * MEASUREMENT_FRAMES = SumSeq(scFollow)

\* C1 (amended): after such a run there is exactly one final measurement,
\* and its pd_mm is the mean of the first MEASUREMENT_FRAMES candidates
\* buffered from the threshold frame on: the candidate of the
\* STABILITY_THRESHOLD-th aligned frame when it yields one, then those of the
\* frames that follow.
C1_MeanFromThresholdFrame ==
    RunComplete =>
        /\ scEmits = 1
        /\ last_measurement # None
        /\ last_measurement.pd_mm * MEASUREMENT_FRAMES
               = SumSeq(SubSeq(RunBuffered, 1, MEASUREMENT_FRAMES))

\* a complete run whose threshold frame yielded a candidate that differs
\* from the one of the last following frame
C1_Witness ==
    /\ RunComplete
    /\ scThr >= 0
    /\ scThr # scFollow[MEASUREMENT_FRAMES]

\* C2: a processed frame that is ALIGNED leaves the counter one above its
\* value before the frame; any other processed frame leaves it at 0.
C2_CounterFollowsAlignment ==
    [][FrameProcessed =>
          stable_frame_count' = IF alignment_status'.aligned
                                THEN stable_frame_count + 1 ELSE 0]_vars

\* aligned frames counted beyond the threshold
C2_Witness ==
    /\ last.op = "frame"
    /\ alignment_status.aligned
    /\ stable_frame_count = STABILITY_THRESHOLD + 1

\* C3: measuring is entered only by a processed frame that is ALIGNED and
\* brings the counter to STABILITY_THRESHOLD or more, and the buffer then
\* holds nothing but that frame's own candidate.
C3_MeasuringEnteredAtThreshold ==
    [][(~is_measuring /\ is_measuring') =>
          /\ FrameProcessed
          /\ alignment_status'.aligned
          /\ stable_frame_count' >= STABILITY_THRESHOLD
          /\ Len(measurement_buffer') <= 1
          /\ measurement_buffer' # <<>> => last'.candidate]_vars

\* measuring entered a second time: the candidates of the cycle before are
\* gone from the buffer
C3_Witness ==
    /\ is_measuring
    /\ last_measurement # None
    /\ Len(measurement_buffer) = 1

\* C4: when a frame completes the buffer, last_measurement has the mean
\* pd_mm and the mean confidence of all buffered entries, and left_pupil,
\* right_pupil and pd_pixels of the last buffered entry.
C4_FinalMeasurementIsMean ==
    (last.op = "frame" /\ last.emitted) =>
        LET n == Len(measurement_buffer)
        IN  /\ n = MEASUREMENT_FRAMES
            /\ last_measurement # None
            /\ last_measurement.pd_mm * n
                   = SumSeq([i \in 1..n |-> measurement_buffer[i].pd_mm])
            /\ last_measurement.confidence * n
                   = SumSeq([i \in 1..n |-> measurement_buffer[i].confidence])
            /\ last_measurement.left_pupil = measurement_buffer[n].left_pupil
            /\ last_measurement.right_pupil = measurement_buffer[n].right_pupil
            /\ last_measurement.pd_pixels = measurement_buffer[n].pd_pixels

\* a final measurement over a buffer whose entries differ from the last one
C4_Witness ==
    /\ last.op = "frame"
    /\ last.emitted
    /\ \E i \in 1..Len(measurement_buffer) :
          measurement_buffer[i].pd_mm
              # measurement_buffer[Len(measurement_buffer)].pd_mm

\* C5: the guide reports ALIGNED only with at least history_size positions
\* in the stability window.
C5_AlignedNeedsFullWindow ==
    alignment_status.aligned => Len(position_history) >= history_size

\* a frame that passes size and offset and has not moved, with the window
\* one position short: "Hold still"
C5_Witness ==
    /\ AfterBoxedFrame
    /\ ~SizeFails(LastWidth)
    /\ ~OffsetFails(LastCenter)
    /\ Len(position_history) = history_size - 1
    /\ WithinStability(position_history)
    /\ ~alignment_status.aligned

\* C6 (as claimed): after a processed frame without a face the stability
\* window is empty.
C6_WindowClearedOnNoFace ==
    (last.op = "frame" /\ ~last.face) => position_history = <<>>

\* C7: after a frame with a face, the first failing check gives the message:
\* size before offset before stability; aligned only when all pass.
C7_FirstFailingCheckReported ==
    AfterBoxedFrame =>
        LET size == Abs(LastWidth - oval_width) * 100
                        > size_tolerance * oval_width
            offset ==
                \/ Abs(LastCenter[1] - center_x) * 100
                       > position_tolerance * frame_width
                \/ Abs(LastCenter[2] - center_y) * 100
                       > position_tolerance * frame_height
            message == alignment_status.message
        IN  /\ size => message \in {"Move closer", "Move back"}
            /\ (~size /\ offset) => message = "Center your face"
            /\ message = "Hold still" => (~size /\ ~offset)
            /\ alignment_status.aligned =>
                   /\ ~size /\ ~offset
                   /\ WindowFilled(position_history)
                   /\ WithinStability(position_history)
            /\ alignment_status.aligned <=> message = "Perfect"
            /\ size => ~alignment_status.aligned

\* a frame that fails both the size and the offset check
C7_Witness ==
    /\ AfterBoxedFrame
    /\ LastWidth > oval_width
    /\ SizeFails(LastWidth)
    /\ OffsetFails(LastCenter)
    /\ alignment_status.message = "Move back"

\* C8 (as claimed): a face 10% wider than the oval is not aligned, with
\* "Move back".
C8_TenPercentLargerMovesBack ==
    (AfterBoxedFrame /\ LastWidth * 100 = oval_width * 110) =>
        /\ ~alignment_status.aligned
        /\ alignment_status.message = "Move back"

\* C8 (amended): a face wider than the oval by more than size_tolerance
\* (15%), such as one 20% wider, is not aligned, with "Move back", whatever
\* its centre.
C8_BeyondToleranceMovesBack ==
    (AfterBoxedFrame /\ LastWidth * 100 > oval_width * (100 + size_tolerance)) =>
        /\ ~alignment_status.aligned
        /\ alignment_status.message = "Move back"

\* a face 20% wider than the oval and off centre
C8_Witness ==
    /\ AfterBoxedFrame
    /\ LastWidth * 100 = oval_width * 120
    /\ OffsetFails(LastCenter)
    /\ alignment_status.message = "Move back"

\* the step is a processed frame with a face and no candidate measurement
GeometryFailed == FrameProcessed /\ last'.face /\ ~last'.candidate

\* C9 (as claimed): a frame with a face whose geometry extraction fails
\* leaves buffer, is_measuring and last_measurement as they were, and the
\* counter follows the frame's alignment alone.
C9_FailedFrameChangesNothing ==
    [][GeometryFailed =>
          /\ measurement_buffer' = measurement_buffer
          /\ is_measuring' = is_measuring
          /\ last_measurement' = last_measurement
          /\ stable_frame_count' = IF alignment_status'.aligned
                                   THEN stable_frame_count + 1 ELSE 0]_vars

\* C9 (amended): such a frame appends nothing and leaves last_measurement
\* as it was; buffer and is_measuring are as before unless the frame is the
\* one that enters measuring, which empties the buffer; the counter follows
\* the frame's alignment alone.
C9_FailedFrameAppendsNothing ==
    [][GeometryFailed =>
          /\ last_measurement' = last_measurement
          /\ stable_frame_count' = IF alignment_status'.aligned
                                   THEN stable_frame_count + 1 ELSE 0
          /\ IF /\ ~is_measuring
                /\ alignment_status'.aligned
                /\ stable_frame_count' >= STABILITY_THRESHOLD
             THEN is_measuring' /\ measurement_buffer' = <<>>
             ELSE /\ is_measuring' = is_measuring
                  /\ measurement_buffer' = measurement_buffer]_vars

\* a frame without candidate processed while three candidates are buffered
C9_Witness ==
    /\ last.op = "frame"
    /\ last.face
    /\ ~last.candidate
    /\ is_measuring
    /\ Len(measurement_buffer) = 3

\* the landmark set of the input lacks a landmark the quality score reads
LacksQualityLandmark == lmIn.p.missing \cap QualityLandmarks # {}

\* the landmark set of the input has every iris and temple landmark
HasGeometryLandmarks == lmIn.p.missing \subseteq QualityLandmarks

\* C10 (as claimed): the quality is within [0,1], it is 0 when a landmark it
\* reads is missing, and process_landmarks on a set with the iris and temple
\* landmarks but without one of those returns a measurement of confidence 0.
C10_QualityClosedAndMeasured ==
    lmOut # None =>
        /\ lmOut.quality \in 0..1000
        /\ LacksQualityLandmark => lmOut.quality = 0
        /\ (LacksQualityLandmark /\ HasGeometryLandmarks) =>
               /\ lmOut.measurement # None
               /\ lmOut.measurement.confidence = 0

\* C10 (amended): as claimed, for a set whose temple landmarks are apart (a
\* face width that is not zero).
C10_QualityClosed ==
    lmOut # None =>
        /\ lmOut.quality \in 0..1000
        /\ lmOut.measurement # None =>
               lmOut.measurement.confidence \in 0..1000
        /\ LacksQualityLandmark => lmOut.quality = 0
        /\ (LacksQualityLandmark /\ HasGeometryLandmarks
                /\ lmIn.p.tl # lmIn.p.tr) =>
               /\ lmOut.measurement # None
               /\ lmOut.measurement.confidence = 0

\* a measurement of confidence 0 from a set without the nose tip
C10_Witness ==
    /\ lmOut # None
    /\ lmIn.p.missing = {4}
    /\ lmOut.measurement # None
    /\ lmOut.measurement.confidence = 0
    /\ lmOut.measurement.pd_mm > 0

\* the temple landmarks of the input have the same x: a face width of zero
ZeroFaceWidth == lmIn.p.tl = lmIn.p.tr

\* C11: on a landmark set whose face width is zero process_landmarks returns
\* no measurement, and every measurement it returns has a pd_mm that is a
\* finite number, computed from a face width that is not zero.
C11_ZeroFaceWidthRejected ==
    lmOut # None =>
        /\ ZeroFaceWidth => lmOut.measurement = None
        /\ lmOut.measurement # None =>
               /\ ~ZeroFaceWidth
               /\ lmOut.measurement.pd_mm \in Nat

\* a complete landmark set with both temples at the same x, rejected
C11_Witness ==
    /\ lmOut # None
    /\ lmIn.p.missing = {}
    /\ ZeroFaceWidth
    /\ lmIn.p.lx # lmIn.p.rx
    /\ lmOut.measurement = None

\* C12 (as claimed): after the frame that emits a final measurement the
\* aggregator is not measuring and the measurement buffer is empty.
C12_BufferEmptyAfterEmission ==
    (last.op = "frame" /\ last.emitted) =>
        /\ ~is_measuring
        /\ measurement_buffer = <<>>

\* the step is a processed frame whose candidate is put into the buffer
FrameAppended ==
    /\ FrameProcessed
    /\ measurement_buffer' # measurement_buffer
    /\ measurement_buffer' # <<>>

\* C13 (as claimed): only a frame whose alignment verdict is ALIGNED puts a
\* candidate into the measurement buffer.
C13_OnlyAlignedFramesBuffered ==
    [][FrameAppended => alignment_status'.aligned]_vars

\* C14: after a stop request, also one in which releasing the camera
\* raised, the stability counter is 0, the aggregator is not measuring, the
\* buffer is empty, last_measurement is absent, and is_running and
\* camera_started are false.
C14_StopResetsSession ==
    last.op \in {"stop", "stop_error"} =>
        /\ stable_frame_count = 0
        /\ ~is_measuring
        /\ measurement_buffer = <<>>
        /\ last_measurement = None
        /\ ~is_running
        /\ ~camera_started

\* a stop whose release raised, after a frame that was ALIGNED
C14_Witness ==
    /\ last.op = "stop_error"
    /\ alignment_status.aligned
    /\ cap = "open"
    /\ stable_frame_count = 0

\* C15 (as claimed): after a start_camera request that succeeded the
\* stability counter is 0, the aggregator is not measuring, the buffer and
\* the stability window are empty, the alignment status is not aligned and
\* no final measurement is reported.
C15_StartResetsSession ==
    last.op = "start_camera" =>
        /\ stable_frame_count = 0
        /\ ~is_measuring
        /\ measurement_buffer = <<>>
        /\ position_history = <<>>
        /\ ~alignment_status.aligned
        /\ last_measurement = None

\* the session state a stream works on
SessionState ==
    <<stable_frame_count, is_measuring, measurement_buffer, position_history,
      last_measurement>>

\* the streams with a generate_frames loop
ActiveStreams == {s \in Streams : pc[s] # "idle"}

\* C16 (as claimed): a frame of one stream leaves the session state of every
\* other running stream as it was, and no two streams are inside
\* process_frame at the same time.
C16_StreamsOwnTheirState ==
    [][/\ \A s \in Streams :
              (pc[s] = "frame" /\ pc'[s] = "loop"
                   /\ ActiveStreams \ {s} # {}) =>
                  UNCHANGED SessionState
       /\ Cardinality({s \in Streams : pc'[s] = "frame"}) <= 1]_vars

\* the face width of the input, in the unit of pd_pixels
InputFaceWidth == Abs(lmIn.p.tr - lmIn.p.tl)

\* the measurement of the input with its iris centres moved to lx and rx
MeasurementAt(lx, rx) ==
    process_landmarks(MakeLandmarks([lmIn.p EXCEPT !.lx = lx, !.rx = rx]))

\* C17: every measurement of process_landmarks has
\* pd_mm = pd_pixels * (AVERAGE_FACE_WIDTH_MM / face width)
\* * PD_CALIBRATION_FACTOR; at the same face width a pd_pixels of 0 gives a
\* pd_mm of 0 and twice the pd_pixels gives twice the pd_mm.
C17_MillimetresLinearInPixels ==
    (lmOut # None /\ lmOut.measurement # None) =>
        LET m == lmOut.measurement
        IN  /\ InputFaceWidth # 0
            /\ m.pd_pixels = Abs(lmIn.p.lx - lmIn.p.rx)
            /\ m.pd_mm * InputFaceWidth
                   = m.pd_pixels * AVERAGE_FACE_WIDTH_MM * PD_CALIBRATION_FACTOR
            /\ m.pd_pixels = 0 => m.pd_mm = 0
            /\ \A lx \in IrisLeftXs, rx \in IrisRightXs :
                   LET m2 == MeasurementAt(lx, rx)
                   IN  (m2 # None /\ m2.pd_pixels = 2 * m.pd_pixels) =>
                           m2.pd_mm = 2 * m.pd_mm

\* a measurement that has another of half its pd_pixels at the same width
C17_Witness ==
    /\ lmOut # None
    /\ lmOut.measurement # None
    /\ lmOut.measurement.pd_pixels = 240
    /\ lmOut.measurement.pd_mm = 113160
    /\ MeasurementAt(560, 440).pd_pixels = 120
    /\ MeasurementAt(560, 560).pd_mm = 0

\* C18 (as claimed): a frame whose eyes are 45 degrees off the level is not
\* reported ALIGNED, and when it passes the size and offset checks its
\* reason is given before the stability check, so it is neither "Hold still"
\* nor "Perfect".
C18_TiltedFaceNotAligned ==
    (AfterBoxedFrame /\ last.angle >= 45) =>
        /\ ~alignment_status.aligned
        /\ (~SizeFails(LastWidth) /\ ~OffsetFails(LastCenter)) =>
               alignment_status.message \notin {"Hold still", "Perfect"}

\* every position in the stability window entered it after the last frame
\* with a face whose position did not enter it
WindowGapFree == sinceSkip >= Len(position_history)

\* C19 (as claimed): when the guide reports ALIGNED, the stability window
\* holds the positions of the history_size most recent frames with a face,
\* none of them left out.
C19_WindowOfConsecutiveFrames ==
    (AfterBoxedFrame /\ alignment_status.aligned) =>
        /\ Len(position_history) = history_size
        /\ WindowGapFree

\* C20: the stability window never holds more than history_size positions,
\* and it changes only by a frame's face centre appended at its end, after
\* the oldest position was removed from a window that was full.
C20_WindowBoundedFifo ==
    [][/\ Len(position_history') <= history_size
       /\ position_history' # position_history =>
              /\ FrameProcessed
              /\ last'.face
              /\ last'.box # NoBox
              /\ position_history' =
                     Append(IF Len(position_history) >= history_size
                            THEN Tail(position_history)
                            ELSE position_history,
                            <<(last'.box.left + last'.box.right) \div 2,
                              (last'.box.top + last'.box.bottom) \div 2>>)]_vars

\* measuring was entered, so the window had been full for many frames, and
\* two later positions have since taken the place of the two oldest
C20_Witness ==
    /\ AfterBoxedFrame
    /\ is_measuring
    /\ Len(position_history) = history_size
    /\ position_history[1] = <<320, 240>>
    /\ position_history[history_size - 1] = <<340, 240>>
    /\ position_history[history_size] = <<320, 240>>
    /\ alignment_status.message = "Hold still"

\* C21: with frames processed one at a time the measurement buffer never
\* holds more than MEASUREMENT_FRAMES entries, whatever frames, start_camera
\* and stop requests came before.
C21_BufferBounded == Len(measurement_buffer) <= MEASUREMENT_FRAMES

\* a frame with a candidate that arrives on a buffer of MEASUREMENT_FRAMES
\* entries after an emission and is not appended
C21_Witness ==
    /\ last.op = "frame"
    /\ last.candidate
    /\ ~last.emitted
    /\ stable_frame_count >= 1
    /\ last_measurement # None
    /\ Len(measurement_buffer) = MEASUREMENT_FRAMES

\* C22 (as claimed): a frame without a face that is processed while the
\* aggregator is measuring leaves it not measuring, with an empty buffer.
C22_FaceLossResetsAggregation ==
    [][(FrameProcessed /\ ~last'.face /\ is_measuring) =>
           /\ ~is_measuring'
           /\ measurement_buffer' = <<>>]_vars

\* C23 (as claimed): once a final measurement was emitted, measuring is
\* entered again only by a frame that completes STABILITY_THRESHOLD ALIGNED
\* frames in a row counted after the emission.
C23_NewRunBeforeNextCycle ==
    [][(FrameProcessed /\ ~is_measuring /\ is_measuring'
            /\ last_measurement # None) =>
           sinceEmit' >= STABILITY_THRESHOLD]_vars

\* C24: last_measurement changes only by a frame that completes the buffer
\* (which writes it) or by a stop (which clears it); get_measurement answers
\* "no_measurement" whenever no final measurement was emitted since the last
\* stop.
C24_LastMeasurementWrittenOnCompletion ==
    [][/\ last_measurement' # last_measurement =>
              \/ /\ FrameProcessed
                 /\ last'.emitted
                 /\ Len(measurement_buffer') >= MEASUREMENT_FRAMES
                 /\ last_measurement' # None
              \/ /\ last'.op \in {"stop", "stop_error"}
                 /\ last_measurement' = None
       /\ ~cycleDone' => get_measurement' = [status |-> "no_measurement"]]_vars

\* a frame of a second cycle that does not complete it: the measurement of
\* the first cycle is still the one reported
C24_Witness ==
    /\ last.op = "frame"
    /\ ~last.emitted
    /\ last.candidate
    /\ is_measuring
    /\ cycleDone
    /\ Len(measurement_buffer) = 2
    /\ get_measurement.pd_mm = Round1(last_measurement.pd_mm)

\* C25 (as claimed): from a stop until the camera is started again the
\* stability counter is 0, the aggregator is not measuring, the buffer is
\* empty and there is no last measurement, also when the stop came while a
\* stream was inside process_frame.
C25_StaysResetAfterStop ==
    ~camera_started =>
        /\ stable_frame_count = 0
        /\ ~is_measuring
        /\ measurement_buffer = <<>>
        /\ last_measurement = None

\* C26 (as claimed): a loop that was running when stop was called ends at
\* its next loop condition: it reads no further frame, also when the camera
\* was started and another stream opened in between.
C26_StoppedLoopsEnd ==
    [][\A s \in stale : pc[s] = "loop" => pc'[s] # "frame"]_vars

\* C27: ensure_camera_initialized ends after at most init_retries calls of
\* initialize_camera; it returns only with is_initialized true and cap an
\* opened device, and otherwise raises (after init_retries failed calls);
\* after every failed call of initialize_camera is_initialized is false and
\* cap is None.
C27_InitTerminatesClean ==
    /\ ens.calls <= init_retries
    /\ ens.attempt <= init_retries
    /\ (ens.pc = "returned" => is_initialized /\ cap = "open")
    /\ (ens.pc = "raised" => ens.calls = init_retries)
    /\ (ens.pc = "failed" => ~is_initialized /\ cap = "none")

=============================================================================
